---- MODULE Spec2Model ----
(***************************************************************************)
(* Model of glynternet/go-accounting: the balance package (Balance,        *)
(* Balances and its queries Earliest, Latest, AtTime) and the account      *)
(* package (Account, New, CloseTime, validate, ValidateBalance,            *)
(* UnmarshalJSON).  Instants are integers, ordered as time.Time orders     *)
(* them; names are sequences of characters.                                *)
(***************************************************************************)
EXTENDS Integers, Sequences, FiniteSets, TLC

\* ------------------------------------------------------------------ bounds
MaxDate == 2
MaxLen == 3
MaxOptions == 2
MaxCalls == 3

\* --------------------------------------------------------------- constants
\* the instant of time.Time{}, the date of Balance{}
ZeroTime == 0

ErrEmptyBalancesMessage == "empty Balances"
ErrNoBalances == "no Balances"

Dates == ZeroTime..MaxDate
Amounts == {-1, 0, 1}

\* ------------------------------------------------------- errors as values
NilErr == [kind |-> "nil"]
EmptyNameError == "Empty name."
EndBeforeStartMessage == "end time is before start time"
TestErrorMessage == "TEST ERROR"
UnmarshalMessage == "unmarshalling data to auxilliary"
CurrencyMessage == "creating new currency"

\* errors.New(msg)
ErrorsNew(msg) == [kind |-> "errorString", msg |-> msg]

\* type FieldError []string
FieldError(fields) == [kind |-> "FieldError", fields |-> fields]

\* the strings of a FieldError
FieldMessages == {EmptyNameError, TestErrorMessage}

\* the elements of a sequence
Elements(e) == {e[i] : i \in 1..Len(e)}

\* FieldError.Equal that compares which strings occur, not where or how often
FieldErrorEqualAsSets(e, other) == Elements(e) = Elements(other)

\* the range loop of FieldError.Equal from index i on
RECURSIVE FieldErrorEqualLoop(_, _, _)
FieldErrorEqualLoop(e, other, i) ==
    IF i > Len(e) THEN TRUE
    ELSE IF e[i] # other[i] THEN FALSE
    ELSE FieldErrorEqualLoop(e, other, i + 1)

\* FieldError.Equal
FieldErrorEqual(e, other) ==
    IF Len(e) # Len(other) THEN FALSE
    ELSE FieldErrorEqualLoop(e, other, 1)

\* balance.DateOutOfAccountTimeRange{BalanceDate, AccountTimeRange}
DateOutOfAccountTimeRange(d, r) ==
    [kind |-> "DateOutOfAccountTimeRange", BalanceDate |-> d, AccountTimeRange |-> r]

\* ------------------------------------------------------------ time.Time
Before(a, b) == a < b
After(a, b) == a > b
TimeEqual(a, b) == a = b

\* ------------------------------------------------------ balance package
Balance == [Date : Dates, Amount : Amounts]

\* Balance{}
ZeroBalance == [Date |-> ZeroTime, Amount |-> 0]

\* type Balances []Balance, up to MaxLen elements
BalancesOfLen(n) == [1..n -> Balance]
Balances == UNION {BalancesOfLen(n) : n \in 0..MaxLen}

\* Balance.Equal that compares the amounts only
BalanceEqualAmountOnly(b, ob) == b.Amount = ob.Amount

\* Balance.Equal
BalanceEqual(b, ob) == b.Amount = ob.Amount /\ TimeEqual(b.Date, ob.Date)

\* type Option func(*Balance) error, as descriptors of the functions passed:
\* Amount(a) and a function that only returns an error (the tests' errorFn)
OptionAmounts == {-12, 0, 7}
AmountOption(a) == [kind |-> "Amount", a |-> a]
BalanceErrorFn == [kind |-> "errorFn", a |-> 0]
BalanceOptions == {AmountOption(a) : a \in OptionAmounts} \cup {BalanceErrorFn}

\* o(&bb): the Balance after the call and the error returned
ApplyBalanceOption(o, bb) ==
    IF o.kind = "Amount" THEN [bb |-> [bb EXCEPT !.Amount = o.a], err |-> NilErr]
    ELSE [bb |-> bb, err |-> ErrorsNew(TestErrorMessage)]

\* the option loop of balance.New from option i on
RECURSIVE BalanceOptionLoop(_, _, _)
BalanceOptionLoop(options, i, bb) ==
    IF i > Len(options) THEN [bb |-> bb, err |-> NilErr]
    ELSE LET r == ApplyBalanceOption(options[i], bb)
         IN  IF r.err # NilErr THEN r
             ELSE BalanceOptionLoop(options, i + 1, r.bb)

\* balance.New that returns the Balance built so far together with the error
NewBalanceReturnsBoth(date, options) ==
    LET l == BalanceOptionLoop(options, 1, [Date |-> date, Amount |-> 0])
    IN  [ok |-> TRUE, b |-> l.bb, err |-> l.err]

\* balance.New(date, options...): ok is whether the *Balance returned is
\* non-nil, b the Balance it points to
NewBalance(date, options) ==
    LET l == BalanceOptionLoop(options, 1, [Date |-> date, Amount |-> 0])
    IN  IF l.err # NilErr
        THEN [ok |-> FALSE, b |-> ZeroBalance, err |-> l.err]
        ELSE [ok |-> TRUE, b |-> l.bb, err |-> NilErr]

\* the decimal digits of a natural number, most significant first
RECURSIVE Digits(_)
Digits(n) == IF n < 10 THEN <<n>> ELSE Append(Digits(n \div 10), n % 10)

\* the number a sequence of decimal digits denotes
RECURSIVE Number(_)
Number(ds) ==
    IF Len(ds) = 0 THEN 0
    ELSE 10 * Number(SubSeq(ds, 1, Len(ds) - 1)) + ds[Len(ds)]

\* the JSON text of an int: a minus sign or none, and decimal digits
FormatInt(n) == [minus |-> n < 0, digits |-> Digits(IF n < 0 THEN 0 - n ELSE n)]

\* the int a JSON number text denotes
ParseInt(text) == IF text.minus THEN 0 - Number(text.digits) ELSE Number(text.digits)

\* the JSON text of a time.Time and the instant such a text denotes
FormatTime(t) == FormatInt(t)
ParseTime(text) == ParseInt(text)

\* json.Marshal of a Balance without the Amount member
BalanceMarshalJSONDateOnly(b) == [Date |-> FormatTime(b.Date), Amount |-> FormatInt(0)]

\* json.Marshal of a Balance: the members Date and Amount of the struct
BalanceMarshalJSON(b) == [Date |-> FormatTime(b.Date), Amount |-> FormatInt(b.Amount)]

\* json.Unmarshal into a Balance
BalanceUnmarshalJSON(doc) == [Date |-> ParseTime(doc.Date), Amount |-> ParseInt(doc.Amount)]

\* Sum's loop without the negative amounts
RECURSIVE SumLoopNoNegatives(_, _, _)
SumLoopNoNegatives(s, i, sum) ==
    IF i > Len(s) THEN sum
    ELSE SumLoopNoNegatives(s, i + 1, IF s[i].Amount < 0 THEN sum ELSE sum + s[i].Amount)

\* the body of Sum's range loop, from element i on, sum the running total
RECURSIVE SumLoop(_, _, _)
SumLoop(s, i, sum) ==
    IF i > Len(s) THEN sum
    ELSE SumLoop(s, i + 1, sum + s[i].Amount)

Sum(s) == SumLoop(s, 1, 0)

\* Earliest's loop with "not after" in place of "before": the last of the
\* Balances of minimal date wins
RECURSIVE EarliestLoopLastWins(_, _, _)
EarliestLoopLastWins(s, i, e) ==
    IF i > Len(s) THEN e
    ELSE EarliestLoopLastWins(s, i + 1, IF ~After(s[i].Date, e.Date) THEN s[i] ELSE e)

\* the body of Earliest's range loop, from element i on, e the running pick
RECURSIVE EarliestLoop(_, _, _)
EarliestLoop(s, i, e) ==
    IF i > Len(s) THEN e
    ELSE EarliestLoop(s, i + 1, IF Before(s[i].Date, e.Date) THEN s[i] ELSE e)

\* Earliest that starts its loop from a Balance of the last date there is
\* and of amount 0 instead of the first element
EarliestFromSentinel(s) ==
    IF Len(s) = 0
    THEN [bal |-> ZeroBalance, err |-> ErrorsNew(ErrEmptyBalancesMessage)]
    ELSE [bal |-> EarliestLoop(s, 1, [Date |-> MaxDate, Amount |-> 0]), err |-> NilErr]

Earliest(s) ==
    IF Len(s) = 0
    THEN [bal |-> ZeroBalance, err |-> ErrorsNew(ErrEmptyBalancesMessage)]
    ELSE [bal |-> EarliestLoop(s, 1, s[1]), err |-> NilErr]

\* Latest's loop with "after" in place of "not after": the first of the
\* Balances of maximal date wins
RECURSIVE LatestLoopFirstWins(_, _, _)
LatestLoopFirstWins(s, i, l) ==
    IF i > Len(s) THEN l
    ELSE LatestLoopFirstWins(s, i + 1, IF After(s[i].Date, l.Date) THEN s[i] ELSE l)

\* the body of Latest's range loop
RECURSIVE LatestLoop(_, _, _)
LatestLoop(s, i, l) ==
    IF i > Len(s) THEN l
    ELSE LatestLoop(s, i + 1, IF ~After(l.Date, s[i].Date) THEN s[i] ELSE l)

\* Latest without the error for the empty collection
LatestNoError(s) ==
    IF Len(s) = 0
    THEN [bal |-> ZeroBalance, err |-> NilErr]
    ELSE [bal |-> LatestLoop(s, 1, s[1]), err |-> NilErr]

Latest(s) ==
    IF Len(s) = 0
    THEN [bal |-> ZeroBalance, err |-> ErrorsNew(ErrEmptyBalancesMessage)]
    ELSE [bal |-> LatestLoop(s, 1, s[1]), err |-> NilErr]

\* AtTime's loop with "after" in place of "not after": the first of the
\* Balances of maximal qualifying date wins
RECURSIVE AtTimeLoopFirstWins(_, _, _, _)
AtTimeLoopFirstWins(s, t, i, at) ==
    IF i > Len(s) THEN at
    ELSE IF After(s[i].Date, t) THEN AtTimeLoopFirstWins(s, t, i + 1, at)
    ELSE LET at1 == IF at = 0 THEN i ELSE at
             at2 == IF After(s[i].Date, s[at1].Date) THEN i ELSE at1
         IN  AtTimeLoopFirstWins(s, t, i + 1, at2)

\* AtTime's loop without the skip of the Balances dated after t
RECURSIVE AtTimeLoopNoSkip(_, _, _, _)
AtTimeLoopNoSkip(s, t, i, at) ==
    IF i > Len(s) THEN at
    ELSE LET at1 == IF at = 0 THEN i ELSE at
             at2 == IF ~After(s[at1].Date, s[i].Date) THEN i ELSE at1
         IN  AtTimeLoopNoSkip(s, t, i + 1, at2)

\* AtTime's loop that also skips the Balances dated at t
RECURSIVE AtTimeLoopStrict(_, _, _, _)
AtTimeLoopStrict(s, t, i, at) ==
    IF i > Len(s) THEN at
    ELSE IF ~Before(s[i].Date, t) THEN AtTimeLoopStrict(s, t, i + 1, at)
    ELSE LET at1 == IF at = 0 THEN i ELSE at
             at2 == IF ~After(s[at1].Date, s[i].Date) THEN i ELSE at1
         IN  AtTimeLoopStrict(s, t, i + 1, at2)

\* the body of AtTime's index loop; at is the index the pointer refers to,
\* 0 for the nil pointer
RECURSIVE AtTimeLoop(_, _, _, _)
AtTimeLoop(s, t, i, at) ==
    IF i > Len(s) THEN at
    ELSE IF After(s[i].Date, t) THEN AtTimeLoop(s, t, i + 1, at)
    ELSE LET at1 == IF at = 0 THEN i ELSE at
             at2 == IF ~After(s[at1].Date, s[i].Date) THEN i ELSE at1
         IN  AtTimeLoop(s, t, i + 1, at2)

AtTime(s, t) ==
    LET at == AtTimeLoop(s, t, 1, 0)
    IN  IF at = 0
        THEN [bal |-> ZeroBalance, err |-> ErrorsNew(ErrNoBalances)]
        ELSE [bal |-> s[at], err |-> NilErr]

\* ------------------------------------------------- go-time: NullTime, Range
NullTime(valid, t) == [Valid |-> valid, Time |-> t]
NoTime == NullTime(FALSE, ZeroTime)
ZeroRange == [start |-> NoTime, end |-> NoTime]

RangeStart(r) == r.start
RangeEnd(r) == r.end

\* Range.Contains: inclusive of the start, exclusive of the end
Contains(r, t) ==
    /\ (~r.start.Valid \/ ~After(r.start.Time, t))
    /\ (~r.end.Valid \/ After(r.end.Time, t))

\* gtime.Start(t)(r): the range after the call and the error returned
Start(t, r) ==
    IF r.end.Valid /\ Before(r.end.Time, t)
    THEN [r |-> r, err |-> ErrorsNew(EndBeforeStartMessage)]
    ELSE [r |-> [r EXCEPT !.start = NullTime(TRUE, t)], err |-> NilErr]

\* gtime.End(t)(r)
End(t, r) ==
    IF r.start.Valid /\ Before(t, r.start.Time)
    THEN [r |-> r, err |-> ErrorsNew(EndBeforeStartMessage)]
    ELSE [r |-> [r EXCEPT !.end = NullTime(TRUE, t)], err |-> NilErr]

\* Range.Equal
RangeEqual(r, q) ==
    /\ r.start.Valid = q.start.Valid
    /\ (r.start.Valid => TimeEqual(r.start.Time, q.start.Time))
    /\ r.end.Valid = q.end.Valid
    /\ (r.end.Valid => TimeEqual(r.end.Time, q.end.Time))

\* --------------------------------------------------------- currency.Code
Codes == {"EUR", "YEN"}
ZeroCode == ""
CurrencyStrings == Codes \cup {"bad"}

\* currency.NewCode(s)
NewCode(s) ==
    IF s \in Codes THEN [c |-> s, err |-> NilErr]
    ELSE [c |-> ZeroCode, err |-> ErrorsNew(CurrencyMessage)]

\* ------------------------------------------------------------- strings
\* a string is a sequence of characters; " " is the whitespace character
Names == {<<>>, <<" ">>, <<"A">>, <<" ", "A", " ">>, <<"B", " ">>, <<"A", " ", "B">>}

\* TrimLeft that leaves the leading whitespace in place
TrimLeftNone(s) == s

RECURSIVE TrimLeft(_)
TrimLeft(s) == IF Len(s) > 0 /\ Head(s) = " " THEN TrimLeft(Tail(s)) ELSE s

RECURSIVE TrimRight(_)
TrimRight(s) ==
    IF Len(s) > 0 /\ s[Len(s)] = " " THEN TrimRight(SubSeq(s, 1, Len(s) - 1)) ELSE s

\* TrimSpace that trims nothing
NoTrim(s) == s

\* strings.TrimSpace
TrimSpace(s) == TrimRight(TrimLeft(s))

\* ------------------------------------------------------- account package
\* Account{}
ZeroAccount == [name |-> <<>>, timeRange |-> ZeroRange, currencyCode |-> ZeroCode]

\* Account.Closed
Closed(a) == RangeEnd(a.timeRange)

\* Account.Opened
Opened(a) == RangeStart(a.timeRange).Time

\* IsOpen that takes a close instant of the zero time as no close instant
IsOpenOnZero(a) == ~RangeEnd(a.timeRange).Valid \/ RangeEnd(a.timeRange).Time = ZeroTime

\* Account.IsOpen
IsOpen(a) == ~RangeEnd(a.timeRange).Valid

\* OpenAt that does not look at the start of the time range
OpenAtIgnoresStart(a, t) == ~Closed(a).Valid \/ After(Closed(a).Time, t)

\* Account.OpenAt: whether the time range, which includes its start and
\* excludes its end, contains t
OpenAt(a, t) == Contains(a.timeRange, t)

\* validate that also reports an Account whose time range has no start
validateNeedsStart(a) ==
    LET fieldErrorDescriptions ==
            IF Len(a.name) = 0 \/ ~RangeStart(a.timeRange).Valid
            THEN <<EmptyNameError>> ELSE <<>>
    IN  IF Len(fieldErrorDescriptions) > 0
        THEN FieldError(fieldErrorDescriptions)
        ELSE NilErr

\* Account.validate
validate(a) ==
    LET fieldErrorDescriptions ==
            IF Len(a.name) = 0 THEN <<EmptyNameError>> ELSE <<>>
    IN  IF Len(fieldErrorDescriptions) > 0
        THEN FieldError(fieldErrorDescriptions)
        ELSE NilErr

\* ValidateBalance without the clause for the close instant
ValidateBalanceContainsOnly(a, b) ==
    LET err == validate(a)
    IN  IF err # NilErr THEN err
        ELSE IF ~Contains(a.timeRange, b.Date)
        THEN DateOutOfAccountTimeRange(b.Date, a.timeRange)
        ELSE NilErr

\* ValidateBalance that checks the date before the Account itself
ValidateBalanceDateFirst(a, b) ==
    IF /\ ~Contains(a.timeRange, b.Date)
       /\ (~Closed(a).Valid \/ ~TimeEqual(Closed(a).Time, b.Date))
    THEN DateOutOfAccountTimeRange(b.Date, a.timeRange)
    ELSE validate(a)

\* Account.ValidateBalance
ValidateBalance(a, b) ==
    LET err == validate(a)
    IN  IF err # NilErr THEN err
        ELSE IF /\ ~Contains(a.timeRange, b.Date)
                /\ (~Closed(a).Valid \/ ~TimeEqual(Closed(a).Time, b.Date))
        THEN DateOutOfAccountTimeRange(b.Date, a.timeRange)
        ELSE NilErr

\* type Option func(*Account) error, as descriptors of the functions passed:
\* a nil Option, CloseTime(t), a function that only returns an error (the
\* tests' errorFn) and a function of the package that blanks the name
NilOption == [kind |-> "nil", t |-> ZeroTime]
CloseTimeOption(t) == [kind |-> "CloseTime", t |-> t]
ErrorFn == [kind |-> "errorFn", t |-> ZeroTime]
BlankName == [kind |-> "blankName", t |-> ZeroTime]
Options == {NilOption, ErrorFn, BlankName} \cup {CloseTimeOption(t) : t \in Dates}

\* CloseTime that, given the zero time, marks the Account as open ended
CloseTimeZeroOpens(t, a) ==
    IF t = ZeroTime
    THEN [a |-> [a EXCEPT !.timeRange.end = NoTime], err |-> NilErr]
    ELSE LET e == End(t, a.timeRange)
         IN  [a |-> [a EXCEPT !.timeRange = e.r], err |-> e.err]

\* CloseTime that sets the close instant whatever error it returns
CloseTimeUnchecked(t, a) ==
    [a |-> [a EXCEPT !.timeRange.end = NullTime(TRUE, t)],
     err |-> End(t, a.timeRange).err]

\* CloseTime that leaves the close instant of a closed Account as it is
CloseTimeOnce(t, a) ==
    LET e == End(t, a.timeRange)
    IN  [a |-> IF a.timeRange.end.Valid THEN a ELSE [a EXCEPT !.timeRange = e.r],
         err |-> e.err]

\* CloseTime(t)(a): the Account after the call and the error returned
CloseTime(t, a) ==
    LET e == End(t, a.timeRange)
    IN  [a |-> [a EXCEPT !.timeRange = e.r], err |-> e.err]

\* o(a) for a non-nil Option o
ApplyOption(o, a) ==
    IF o.kind = "CloseTime" THEN CloseTime(o.t, a)
    ELSE IF o.kind = "errorFn" THEN [a |-> a, err |-> ErrorsNew(TestErrorMessage)]
    ELSE [a |-> [a EXCEPT !.name = <<>>], err |-> NilErr]

\* the option loop that goes on after an option returned an error
RECURSIVE OptionLoopGoesOn(_, _, _, _)
OptionLoopGoesOn(os, i, a, calls) ==
    IF i > Len(os) THEN [a |-> a, err |-> NilErr, calls |-> calls]
    ELSE IF os[i] = NilOption THEN OptionLoopGoesOn(os, i + 1, a, calls)
    ELSE LET r == ApplyOption(os[i], a)
         IN  OptionLoopGoesOn(os, i + 1, r.a, Append(calls, [i |-> i, err |-> r.err]))

\* the option loop that applies every option to the Account as it was before
\* the loop and keeps what the last one made of it
RECURSIVE OptionLoopOnFresh(_, _, _, _)
OptionLoopOnFresh(os, i, a, calls) ==
    IF i > Len(os)
    THEN LET called == {j \in 1..Len(os) : os[j] # NilOption}
             last == CHOOSE j \in called : \A k \in called : k <= j
         IN  [a |-> IF called = {} THEN a ELSE ApplyOption(os[last], a).a,
              err |-> NilErr, calls |-> calls]
    ELSE IF os[i] = NilOption THEN OptionLoopOnFresh(os, i + 1, a, calls)
    ELSE LET r == ApplyOption(os[i], a)
             cs == Append(calls, [i |-> i, err |-> r.err])
         IN  IF r.err # NilErr
             THEN [a |-> r.a, err |-> r.err, calls |-> cs]
             ELSE OptionLoopOnFresh(os, i + 1, a, cs)

\* the option loop of New from option i on; calls lists the options invoked
\* so far, each with the error it returned
RECURSIVE OptionLoop(_, _, _, _)
OptionLoop(os, i, a, calls) ==
    IF i > Len(os) THEN [a |-> a, err |-> NilErr, calls |-> calls]
    ELSE IF os[i] = NilOption THEN OptionLoop(os, i + 1, a, calls)
    ELSE LET r == ApplyOption(os[i], a)
             cs == Append(calls, [i |-> i, err |-> r.err])
         IN  IF r.err # NilErr
             THEN [a |-> r.a, err |-> r.err, calls |-> cs]
             ELSE OptionLoop(os, i + 1, r.a, cs)

\* return a, a.validate() without setting a to nil
NewReturnBoth(a, calls) ==
    [ok |-> TRUE, a |-> a, err |-> validate(a), calls |-> calls, validated |-> TRUE]

\* the return statement of New after the option loop: a, err of a.validate()
NewReturn(a, calls) ==
    LET err == validate(a)
    IN  [ok |-> err = NilErr,
         a |-> IF err = NilErr THEN a ELSE ZeroAccount,
         err |-> err, calls |-> calls, validated |-> TRUE]

\* what New returns when it returns nil, err
NewFail(err, calls) ==
    [ok |-> FALSE, a |-> ZeroAccount, err |-> err, calls |-> calls, validated |-> FALSE]

\* account.New(name, currencyCode, opened, os...): ok is whether the *Account
\* returned is non-nil, a the Account it points to
New(name, currencyCode, opened, os) ==
    LET trimmed == TrimSpace(name)
    IN  IF Len(trimmed) = 0 THEN NewFail(ErrorsNew(EmptyNameError), <<>>)
        ELSE LET a0 == [name |-> trimmed, timeRange |-> ZeroRange,
                        currencyCode |-> currencyCode]
                 s == Start(opened, a0.timeRange)
             IN  IF s.err # NilErr THEN NewFail(s.err, <<>>)
                 ELSE LET l == OptionLoop(os, 1, [a0 EXCEPT !.timeRange = s.r], <<>>)
                      IN  IF l.err # NilErr THEN NewFail(l.err, l.calls)
                          ELSE NewReturn(l.a, l.calls)

\* the JSON documents given to UnmarshalJSON: a malformed one, or an object
\* with the fields Name, Opened, Closed and Currency
Malformed == [malformed |-> TRUE, Name |-> <<>>, Opened |-> ZeroTime,
              Closed |-> NoTime, Currency |-> ZeroCode]
Documents ==
    {Malformed} \cup
    [malformed : {FALSE}, Name : Names, Opened : Dates,
     Closed : {NoTime} \cup {NullTime(TRUE, t) : t \in Dates},
     Currency : CurrencyStrings]

\* (*Account).UnmarshalJSON(data): the Account after the call and the error
UnmarshalJSON(a, data) ==
    IF data.malformed THEN [a |-> a, err |-> ErrorsNew(UnmarshalMessage)]
    ELSE LET a1 == [a EXCEPT !.name = data.Name]
             c == NewCode(data.Currency)
         IN  IF c.err # NilErr THEN [a |-> a1, err |-> c.err]
             ELSE LET a2 == [a1 EXCEPT !.currencyCode = c.c]
                      s == Start(data.Opened, ZeroRange)
                  IN  IF s.err # NilErr THEN [a |-> a2, err |-> s.err]
                      ELSE LET e == IF data.Closed.Valid
                                    THEN End(data.Closed.Time, s.r)
                                    ELSE s
                           IN  IF e.err # NilErr THEN [a |-> a2, err |-> e.err]
                               ELSE LET a3 == [a2 EXCEPT !.timeRange = e.r]
                                    IN  [a |-> a3, err |-> validate(a3)]

\* MarshalJSON without the Name member
MarshalJSONNoName(a) ==
    [doc |-> [malformed |-> FALSE, Name |-> <<>>, Opened |-> Opened(a),
              Closed |-> Closed(a), Currency |-> a.currencyCode],
     err |-> NilErr]

\* Account.MarshalJSON: the document with the members Name, Opened, Closed
\* and Currency, and the error
MarshalJSON(a) ==
    [doc |-> [malformed |-> FALSE, Name |-> a.name, Opened |-> Opened(a),
              Closed |-> Closed(a), Currency |-> a.currencyCode],
     err |-> NilErr]

\* Equal that also compares the currency codes
EqualWithCurrency(a, b) ==
    /\ a.name = b.name
    /\ RangeEqual(a.timeRange, b.timeRange)
    /\ a.currencyCode = b.currencyCode

\* Account.Equal
Equal(a, b) ==
    IF a.name # b.name THEN FALSE
    ELSE IF ~RangeEqual(a.timeRange, b.timeRange) THEN FALSE
    ELSE TRUE

\* ----------------------------------------------------------------- state
\* bs, res: a Balances value and the result of the last query on it
\* args, new: the arguments of a call of New and what it returned
\* acct, ret: an Account object and the result of the last operation on it
\* bargs, made: the arguments of a call of balance.New, what it returned and
\*              what encoding and decoding the Balance gave
\* fes, fres: two FieldErrors and the results of Equal on them, both ways
\* log: the calls made on an Account so far, each with what it returned
VARIABLES bs, res, args, new, acct, ret, bargs, made, fes, fres, log

vars == <<bs, res, args, new, acct, ret, bargs, made, fes, fres, log>>

NoResult == [op |-> "none", t |-> ZeroTime, bal |-> ZeroBalance, err |-> NilErr, sum |-> 0,
             ob |-> ZeroBalance, eq |-> FALSE, qe |-> FALSE]
NoArgs == [name |-> <<>>, currencyCode |-> ZeroCode, opened |-> ZeroTime, os |-> <<>>]
NoNew == [called |-> FALSE] @@ NewFail(NilErr, <<>>)
NoRet == [op |-> "none", ok |-> TRUE, err |-> NilErr, b |-> ZeroBalance, t |-> ZeroTime,
          opt |-> NilOption, dec |-> ZeroAccount]

NoFieldErrors == [errA |-> <<>>, errB |-> <<>>]
NoEquals == [called |-> FALSE, equalA |-> FALSE, equalB |-> FALSE]
NoLoop == [done |-> FALSE, b |-> ZeroBalance, equal |-> FALSE]
NoBalanceArgs == [date |-> ZeroTime, options |-> <<>>]
NoBalanceMade == [called |-> FALSE, ok |-> FALSE, b |-> ZeroBalance, err |-> NilErr,
                  loop |-> NoLoop]

BalancesIdle == bs = <<>> /\ res = NoResult
NewIdle == args = NoArgs /\ new = NoNew
AccountIdle == acct = ZeroAccount /\ ret = NoRet
BalanceIdle == bargs = NoBalanceArgs /\ made = NoBalanceMade
FieldErrorIdle == fes = NoFieldErrors /\ fres = NoEquals
LogIdle == log = <<>>

\* the first index of s that holds b
FirstIndexOf(s, b) == CHOOSE i \in 1..Len(s) : s[i] = b /\ \A j \in 1..(i - 1) : s[j] # b

\* ------------------------------------------------- queries over a Balances
InitBalances ==
    /\ bs \in Balances
    /\ res = NoResult
    /\ NewIdle /\ AccountIdle /\ BalanceIdle
    /\ FieldErrorIdle /\ LogIdle

\* Earliest that swaps the Balance it returns with the first element
CallEarliestMovesToFront ==
    /\ LET r == Earliest(bs)
           at == IF Len(bs) = 0 THEN 0 ELSE FirstIndexOf(bs, r.bal)
       IN  /\ res' = [NoResult EXCEPT !.op = "Earliest", !.bal = r.bal, !.err = r.err]
           /\ bs' = IF at = 0 THEN bs ELSE [bs EXCEPT ![1] = bs[at], ![at] = bs[1]]
    /\ UNCHANGED <<args, new, acct, ret, bargs, made, fes, fres, log>>

CallEarliest ==
    /\ LET r == Earliest(bs)
       IN  res' = [NoResult EXCEPT !.op = "Earliest", !.bal = r.bal, !.err = r.err]
    /\ UNCHANGED <<bs, args, new, acct, ret, bargs, made, fes, fres, log>>

CallLatest ==
    /\ LET r == Latest(bs)
       IN  res' = [NoResult EXCEPT !.op = "Latest", !.bal = r.bal, !.err = r.err]
    /\ UNCHANGED <<bs, args, new, acct, ret, bargs, made, fes, fres, log>>

CallAtTime ==
    \E t \in Dates :
        /\ LET r == AtTime(bs, t)
           IN  res' = [NoResult EXCEPT !.op = "AtTime", !.t = t, !.bal = r.bal, !.err = r.err]
        /\ UNCHANGED <<bs, args, new, acct, ret, bargs, made, fes, fres, log>>

CallSum ==
    /\ res' = [NoResult EXCEPT !.op = "Sum", !.sum = Sum(bs)]
    /\ UNCHANGED <<bs, args, new, acct, ret, bargs, made, fes, fres, log>>

\* bs[i].Equal(bs[j]) and bs[j].Equal(bs[i])
CallBalanceEqual ==
    \E i \in 1..Len(bs), j \in 1..Len(bs) :
        /\ res' = [NoResult EXCEPT !.op = "Equal", !.bal = bs[i], !.ob = bs[j],
                                   !.eq = BalanceEqual(bs[i], bs[j]),
                                   !.qe = BalanceEqual(bs[j], bs[i])]
        /\ UNCHANGED <<bs, args, new, acct, ret, bargs, made, fes, fres, log>>

NextBalances == CallEarliest \/ CallLatest \/ CallAtTime \/ CallSum \/ CallBalanceEqual

SpecBalances == InitBalances /\ [][NextBalances]_vars

\* ------------------------------------------------------ construction by New
OptionLists == UNION {[1..n -> Options] : n \in 0..MaxOptions}

InitNew ==
    /\ args \in [name : Names, currencyCode : Codes, opened : Dates, os : OptionLists]
    /\ new = NoNew
    /\ BalancesIdle /\ AccountIdle /\ BalanceIdle
    /\ FieldErrorIdle /\ LogIdle

CallNew ==
    /\ new' = [called |-> TRUE] @@ New(args.name, args.currencyCode, args.opened, args.os)
    /\ UNCHANGED <<bs, res, args, acct, ret, bargs, made, fes, fres, log>>

NextNew == CallNew

SpecNew == InitNew /\ [][NextNew]_vars

\* ------------------------------------------------ the life of an Account
InitAccount ==
    /\ acct = ZeroAccount
    /\ ret = NoRet
    /\ BalancesIdle /\ NewIdle /\ BalanceIdle
    /\ FieldErrorIdle /\ LogIdle

\* a, err := New(name, code, opened, o), o nil or CloseTime(t);
\* the object is replaced when a is not nil
AccountNew ==
    \E name \in Names, code \in Codes, opened \in Dates,
       o \in {NilOption} \cup {CloseTimeOption(t) : t \in Dates} :
        LET r == New(name, code, opened, <<o>>)
        IN  /\ acct' = IF r.ok THEN r.a ELSE acct
            /\ ret' = [NoRet EXCEPT !.op = "New", !.ok = r.ok, !.err = r.err, !.opt = o]
            /\ UNCHANGED <<bs, res, args, new, bargs, made, fes, fres, log>>

\* err := CloseTime(t)(a)
AccountCloseTime ==
    \E t \in Dates :
        LET r == CloseTime(t, acct)
        IN  /\ acct' = r.a
            /\ ret' = [NoRet EXCEPT !.op = "CloseTime", !.err = r.err, !.t = t]
            /\ UNCHANGED <<bs, res, args, new, bargs, made, fes, fres, log>>

\* err := json.Unmarshal(data, a), on the object or on a fresh var a Account
AccountUnmarshalJSON ==
    \E data \in Documents, recv \in {acct, ZeroAccount} :
        LET r == UnmarshalJSON(recv, data)
        IN  /\ acct' = r.a
            /\ ret' = [NoRet EXCEPT !.op = "UnmarshalJSON", !.err = r.err]
            /\ UNCHANGED <<bs, res, args, new, bargs, made, fes, fres, log>>

\* err := a.ValidateBalance(b)
AccountValidateBalance ==
    \E b \in Balance :
        /\ ret' = [NoRet EXCEPT !.op = "ValidateBalance", !.b = b,
                                !.err = ValidateBalance(acct, b)]
        /\ UNCHANGED <<bs, res, args, new, acct, bargs, made, fes, fres, log>>

\* bytes, err := json.Marshal(a); var b Account; err = json.Unmarshal(bytes, &b);
\* b.Equal(*a), as in TestAccount_MarshalJSON
AccountJSONLoop ==
    LET m == MarshalJSON(acct)
        u == UnmarshalJSON(ZeroAccount, m.doc)
    IN  /\ ret' = IF m.err # NilErr
                  THEN [NoRet EXCEPT !.op = "JSONLoop", !.ok = FALSE, !.err = m.err]
                  ELSE [NoRet EXCEPT !.op = "JSONLoop", !.ok = Equal(u.a, acct),
                                     !.err = u.err, !.dec = u.a]
        /\ UNCHANGED <<bs, res, args, new, acct, bargs, made, fes, fres, log>>

\* a.IsOpen()
AccountIsOpen ==
    /\ ret' = [NoRet EXCEPT !.op = "IsOpen", !.ok = IsOpen(acct)]
    /\ UNCHANGED <<bs, res, args, new, acct, bargs, made, fes, fres, log>>

\* a.OpenAt(reference)
AccountOpenAt ==
    \E t \in Dates :
        /\ ret' = [NoRet EXCEPT !.op = "OpenAt", !.t = t, !.ok = OpenAt(acct, t)]
        /\ UNCHANGED <<bs, res, args, new, acct, bargs, made, fes, fres, log>>

NextAccount ==
    \/ AccountNew \/ AccountCloseTime \/ AccountUnmarshalJSON
    \/ AccountValidateBalance \/ AccountJSONLoop \/ AccountIsOpen
    \/ AccountOpenAt

SpecAccount == InitAccount /\ [][NextAccount]_vars

\* ------------------------------------- construction and JSON of a Balance
BalanceOptionLists == UNION {[1..n -> BalanceOptions] : n \in 0..MaxOptions}

InitBalance ==
    /\ bargs \in [date : Dates, options : BalanceOptionLists]
    /\ made = NoBalanceMade
    /\ BalancesIdle /\ NewIdle /\ AccountIdle
    /\ FieldErrorIdle /\ LogIdle

\* b, err := balance.New(date, options...)
CallBalanceNew ==
    /\ made' = [called |-> TRUE, loop |-> NoLoop] @@ NewBalance(bargs.date, bargs.options)
    /\ UNCHANGED <<bs, res, args, new, acct, ret, bargs, fes, fres, log>>

\* jsonBytes, err := json.Marshal(a); var b Balance; json.Unmarshal(jsonBytes, &b);
\* a.Equal(b), as in TestBalance_JSONLoop
CallBalanceJSONLoop ==
    /\ made.called /\ made.ok
    /\ LET b == BalanceUnmarshalJSON(BalanceMarshalJSON(made.b))
       IN  made' = [made EXCEPT !.loop = [done |-> TRUE, b |-> b,
                                          equal |-> BalanceEqual(made.b, b)]]
    /\ UNCHANGED <<bs, res, args, new, acct, ret, bargs, fes, fres, log>>

NextBalance == CallBalanceNew \/ CallBalanceJSONLoop

SpecBalance == InitBalance /\ [][NextBalance]_vars

\* ------------------------- validations and closings of one Account, logged
\* the Accounts New returns when called without options
OpenedAccounts == {New(<<"A">>, "EUR", opened, <<>>).a : opened \in Dates}

InitOnDemand ==
    /\ acct \in OpenedAccounts
    /\ ret = NoRet
    /\ log = <<>>
    /\ BalancesIdle /\ NewIdle /\ BalanceIdle /\ FieldErrorIdle

\* err := a.ValidateBalance(b)
LoggedValidateBalance ==
    \E b \in Balance :
        /\ Len(log) < MaxCalls
        /\ log' = Append(log, [op |-> "ValidateBalance", b |-> b, t |-> ZeroTime,
                               err |-> ValidateBalance(acct, b)])
        /\ UNCHANGED <<bs, res, args, new, acct, ret, bargs, made, fes, fres>>

\* CloseTime that fails, leaving the Account as it is, when a Balance that
\* ValidateBalance accepted earlier is dated after t
LoggedCloseTimeGuarded ==
    \E t \in Dates :
        LET r == CloseTime(t, acct)
            held == \E i \in 1..Len(log) :
                        /\ log[i].op = "ValidateBalance" /\ log[i].err = NilErr
                        /\ After(log[i].b.Date, t)
            err == IF held THEN ErrorsNew(EndBeforeStartMessage) ELSE r.err
        IN  /\ Len(log) < MaxCalls
            /\ acct' = IF held THEN acct ELSE r.a
            /\ log' = Append(log, [op |-> "CloseTime", b |-> ZeroBalance, t |-> t,
                                   err |-> err])
            /\ UNCHANGED <<bs, res, args, new, ret, bargs, made, fes, fres>>

\* err := CloseTime(t)(a)
LoggedCloseTime ==
    \E t \in Dates :
        LET r == CloseTime(t, acct)
        IN  /\ Len(log) < MaxCalls
            /\ acct' = r.a
            /\ log' = Append(log, [op |-> "CloseTime", b |-> ZeroBalance, t |-> t,
                                   err |-> r.err])
            /\ UNCHANGED <<bs, res, args, new, ret, bargs, made, fes, fres>>

NextOnDemand == LoggedValidateBalance \/ LoggedCloseTime

SpecOnDemand == InitOnDemand /\ [][NextOnDemand]_vars

\* ------------------------------------------- validate on Account values
\* the time ranges gtime.Start and gtime.End build: no start or a start, no
\* end or an end, the end not before the start
NullTimes == {NoTime} \cup {NullTime(TRUE, t) : t \in Dates}
Ranges ==
    {r \in [start : NullTimes, end : NullTimes] :
        (r.start.Valid /\ r.end.Valid) => ~Before(r.end.Time, r.start.Time)}

\* the values of the struct Account, as the package's own tests write them
AccountStructs ==
    [name : Names, timeRange : Ranges, currencyCode : Codes \cup {ZeroCode}]

InitValidate ==
    /\ acct \in AccountStructs
    /\ ret = NoRet
    /\ BalancesIdle /\ NewIdle /\ BalanceIdle
    /\ FieldErrorIdle /\ LogIdle

\* actual := a.validate()
AccountValidate ==
    /\ ret' = [NoRet EXCEPT !.op = "validate", !.err = validate(acct)]
    /\ UNCHANGED <<bs, res, args, new, acct, bargs, made, fes, fres, log>>

NextValidate == AccountValidate

SpecValidate == InitValidate /\ [][NextValidate]_vars

\* ------------------------------------------------ Equal on two FieldErrors
FieldErrors == UNION {[1..n -> FieldMessages] : n \in 0..MaxLen}

InitFieldErrors ==
    /\ fes \in [errA : FieldErrors, errB : FieldErrors]
    /\ fres = NoEquals
    /\ BalancesIdle /\ NewIdle /\ AccountIdle /\ BalanceIdle /\ LogIdle

\* equalA := errA.Equal(errB); equalB := errB.Equal(errA)
CallFieldErrorEqual ==
    /\ fres' = [called |-> TRUE, equalA |-> FieldErrorEqual(fes.errA, fes.errB),
                equalB |-> FieldErrorEqual(fes.errB, fes.errA)]
    /\ UNCHANGED <<bs, res, args, new, acct, ret, bargs, made, fes, log>>

NextFieldErrors == CallFieldErrorEqual

SpecFieldErrors == InitFieldErrors /\ [][NextFieldErrors]_vars

\* ------------------------------------------------- Equal on two Accounts
\* the Accounts New returns for a name, a code, an open instant and a nil
\* Option or a CloseTime
MadeByNew ==
    LET news == {New(name, code, opened, <<o>>) :
                    name \in Names, code \in Codes, opened \in Dates,
                    o \in {NilOption} \cup {CloseTimeOption(t) : t \in Dates}}
    IN  {r.a : r \in {m \in news : m.ok}}

InitEqual ==
    /\ acct \in MadeByNew
    /\ \E b \in MadeByNew : ret = [NoRet EXCEPT !.dec = b]
    /\ BalancesIdle /\ NewIdle /\ BalanceIdle
    /\ FieldErrorIdle /\ LogIdle

\* a.Equal(b)
CallEqual ==
    /\ ret' = [ret EXCEPT !.op = "Equal", !.ok = Equal(acct, ret.dec)]
    /\ UNCHANGED <<bs, res, args, new, acct, bargs, made, fes, fres, log>>

NextEqual == CallEqual

SpecEqual == InitEqual /\ [][NextEqual]_vars

\* --------------------------- the reading operations, on one Account and one
\* --------------------------- Balances value
\* the collections of no, one or two Balances
ReadBalances == BalancesOfLen(0) \cup BalancesOfLen(1) \cup BalancesOfLen(2)

\* Account{}, the Accounts New returns when called without options, and
\* these closed at the last date there is
ReadAccounts ==
    {ZeroAccount} \cup OpenedAccounts \cup {CloseTime(MaxDate, a).a : a \in OpenedAccounts}

InitReads ==
    /\ bs \in ReadBalances
    /\ res = NoResult
    /\ acct \in ReadAccounts
    /\ \E b \in ReadAccounts : ret = [NoRet EXCEPT !.dec = b]
    /\ NewIdle /\ BalanceIdle /\ FieldErrorIdle /\ LogIdle

NextReads ==
    \/ CallSum \/ CallEarliest \/ CallLatest \/ CallAtTime
    \/ AccountValidateBalance \/ AccountValidate \/ AccountIsOpen \/ CallEqual

SpecReads == InitReads /\ [][NextReads]_vars

\* ------------------------------------------------------------- properties
QueryDone(op) == res.op = op

\* the first index of s whose date is minimal over s
FirstMinimal(s) ==
    CHOOSE i \in 1..Len(s) :
        /\ \A j \in 1..Len(s) : s[i].Date <= s[j].Date
        /\ \A j \in 1..(i - 1) : s[j].Date # s[i].Date

\* the last index of s whose date is maximal over s
LastMaximal(s) ==
    CHOOSE i \in 1..Len(s) :
        /\ \A j \in 1..Len(s) : s[j].Date <= s[i].Date
        /\ \A j \in (i + 1)..Len(s) : s[j].Date # s[i].Date

\* the indices of the Balances of s dated at or before t
Qualifying(s, t) == {i \in 1..Len(s) : s[i].Date <= t}

\* the last index of s whose date is maximal among those at or before t
LastMaximalAt(s, t) ==
    CHOOSE i \in Qualifying(s, t) :
        /\ \A j \in Qualifying(s, t) : s[j].Date <= s[i].Date
        /\ \A j \in Qualifying(s, t) : j > i => s[j].Date # s[i].Date

\* C1: on a non-empty Balances, Earliest returns no error and the Balance of
\* minimal date, the first in the sequence among those of that date.
EarliestIsFirstMinimal ==
    (QueryDone("Earliest") /\ Len(bs) > 0)
        => (res.err = NilErr /\ res.bal = bs[FirstMinimal(bs)])

\* Earliest has answered on a collection whose minimal date is shared by two
\* Balances of different amounts, neither of them the first element
EarliestTieSeen ==
    /\ QueryDone("Earliest") /\ Len(bs) = 3
    /\ bs[2].Date < bs[1].Date /\ bs[3].Date = bs[2].Date
    /\ bs[2].Amount # bs[3].Amount
    /\ res.bal = bs[2]

\* C2: on a non-empty Balances, Latest returns no error and the Balance of
\* maximal date, the last in the sequence among those of that date.
LatestIsLastMaximal ==
    (QueryDone("Latest") /\ Len(bs) > 0)
        => (res.err = NilErr /\ res.bal = bs[LastMaximal(bs)])

\* Latest has answered on a collection whose maximal date is shared by two
\* Balances of different amounts, neither of them the last element
LatestTieSeen ==
    /\ QueryDone("Latest") /\ Len(bs) = 3
    /\ bs[3].Date < bs[1].Date /\ bs[2].Date = bs[1].Date
    /\ bs[1].Amount # bs[2].Amount
    /\ res.bal = bs[2]

\* C3: when some Balance is dated at or before t, AtTime(t) returns the
\* Balance of maximal date among those at or before t, the last in the
\* sequence among those of that date, whatever is dated after t.
AtTimeIsLastMaximalAt ==
    (QueryDone("AtTime") /\ Qualifying(bs, res.t) # {})
        => (res.err = NilErr /\ res.bal = bs[LastMaximalAt(bs, res.t)])

\* AtTime has answered on a collection that starts with a Balance dated
\* after t, followed by two Balances of the same qualifying date
AtTimeTieSeen ==
    /\ QueryDone("AtTime") /\ Len(bs) = 3
    /\ bs[1].Date > res.t
    /\ bs[2].Date <= res.t /\ bs[3].Date = bs[2].Date
    /\ bs[2].Amount # bs[3].Amount
    /\ res.bal = bs[3]

\* C9: AtTime(t) returns the error ErrNoBalances with the zero Balance when
\* no Balance is dated at or before t, and no error otherwise.
AtTimeFailsIffNoneQualifies ==
    QueryDone("AtTime") =>
        IF Qualifying(bs, res.t) = {}
        THEN res.err = ErrorsNew(ErrNoBalances) /\ res.bal = ZeroBalance
        ELSE res.err = NilErr

\* AtTime has failed on a non-empty collection, all of it dated after t
AtTimeAllAfterSeen ==
    /\ QueryDone("AtTime") /\ Len(bs) > 1
    /\ \A i \in 1..Len(bs) : bs[i].Date > res.t
    /\ res.err = ErrorsNew(ErrNoBalances)

Validated == ret.op = "ValidateBalance"

\* C4: on an Account with a name and a start instant, ValidateBalance
\* returns no error when start <= d and the Account has no close instant or
\* d <= close, and otherwise DateOutOfAccountTimeRange with d and the range.
ValidateBalanceAcceptsWithinLifetime ==
    (Validated /\ Len(acct.name) > 0 /\ acct.timeRange.start.Valid) =>
        LET d == ret.b.Date
            r == acct.timeRange
        IN  IF r.start.Time <= d /\ (~r.end.Valid \/ d <= r.end.Time)
            THEN ret.err = NilErr
            ELSE ret.err = DateOutOfAccountTimeRange(d, r)

\* a Balance dated at the close instant of an Account closed after its start
\* has been accepted
BalanceAtCloseSeen ==
    /\ Validated /\ Len(acct.name) > 0
    /\ acct.timeRange.start.Valid /\ acct.timeRange.end.Valid
    /\ acct.timeRange.start.Time < acct.timeRange.end.Time
    /\ ret.b.Date = acct.timeRange.end.Time
    /\ ret.err = NilErr

\* C8: on an Account with an empty name ValidateBalance returns the
\* FieldError of validate, whatever the date of the Balance.
ValidateBalanceReportsAccountFirst ==
    (Validated /\ Len(acct.name) = 0)
        => ret.err = FieldError(<<EmptyNameError>>)

\* a Balance dated before the start of an Account with an empty name has
\* been validated
InvalidAccountOutOfRangeSeen ==
    /\ Validated /\ Len(acct.name) = 0
    /\ acct.timeRange.start.Valid
    /\ ret.b.Date < acct.timeRange.start.Time
    /\ ret.err = FieldError(<<EmptyNameError>>)

\* C5: New never returns an Account together with an error.
NewIsAtomic ==
    new.called => ~(new.ok /\ new.err # NilErr)

\* New has failed in its final validation, after every option succeeded
NewFailedValidationSeen ==
    /\ new.called /\ new.validated
    /\ Len(new.calls) > 0
    /\ new.err # NilErr /\ ~new.ok

\* C6: when an option invoked by New returns an error, New returns that
\* error and no Account.
NewReturnsOptionError ==
    new.called =>
        \A k \in 1..Len(new.calls) :
            new.calls[k].err # NilErr => (~new.ok /\ new.err = new.calls[k].err)

\* New has failed on its second option after the first one succeeded
SecondOptionFailedSeen ==
    /\ new.called /\ Len(new.calls) = 2
    /\ new.calls[1].err = NilErr
    /\ new.calls[2].err = ErrorsNew(TestErrorMessage)
    /\ new.err = ErrorsNew(TestErrorMessage) /\ ~new.ok

\* the name is empty or made of whitespace only
Blank(name) == \A i \in 1..Len(name) : name[i] = " "

\* C7: New with an empty or whitespace-only name returns no Account and an
\* error of message EmptyNameError, whatever the other arguments.
NewRejectsBlankName ==
    (new.called /\ Blank(args.name))
        => (~new.ok /\ new.err = ErrorsNew(EmptyNameError))

\* New has rejected a whitespace-only name given with options
BlankNameRejectedSeen ==
    /\ new.called /\ Len(args.name) > 0 /\ Blank(args.name)
    /\ Len(args.os) > 0
    /\ new.err = ErrorsNew(EmptyNameError) /\ ~new.ok

\* the sum of the amounts of the first n Balances of s, by their values
RECURSIVE Total(_, _)
Total(s, n) == IF n = 0 THEN 0 ELSE Total(s, n - 1) + s[n].Amount

\* C11: Sum returns the arithmetic sum of the amounts of all the Balances,
\* duplicates and negative amounts included, and 0 for the empty collection.
SumIsTotal ==
    QueryDone("Sum") =>
        /\ res.sum = Total(bs, Len(bs))
        /\ (bs = <<>> => res.sum = 0)

\* Sum has answered on a collection that holds the same Balance twice and a
\* Balance of negative amount
SumOfDuplicatesSeen ==
    /\ QueryDone("Sum") /\ Len(bs) = 3
    /\ bs[1] = bs[2] /\ bs[1].Amount > 0 /\ bs[3].Amount < 0
    /\ res.sum = bs[1].Amount + bs[2].Amount + bs[3].Amount

Open(a) == ~a.timeRange.end.Valid

CloseNotBeforeStart ==
    (acct.timeRange.start.Valid /\ acct.timeRange.end.Valid)
        => acct.timeRange.end.Time >= acct.timeRange.start.Time

\* CloseTime of an instant before the start has failed on a closed Account
CloseBeforeStartRefusedSeen ==
    /\ ret.op = "CloseTime" /\ ret.err # NilErr
    /\ acct.timeRange.start.Valid /\ acct.timeRange.end.Valid
    /\ ret.t < acct.timeRange.start.Time

AccountRoundTrips ==
    (/\ ret.op = "JSONLoop"
     /\ Len(acct.name) > 0 /\ acct.timeRange.start.Valid
     /\ acct.currencyCode \in Codes)
        => /\ ret.err = NilErr /\ ret.ok
           /\ ret.dec.name = acct.name
           /\ ret.dec.timeRange = acct.timeRange

\* a closed Account has been encoded and decoded
ClosedAccountRoundTripSeen ==
    /\ ret.op = "JSONLoop" /\ ret.ok /\ ret.err = NilErr
    /\ Len(acct.name) > 0 /\ acct.timeRange.start.Valid
    /\ acct.timeRange.end.Valid
    /\ acct.timeRange.end.Time > acct.timeRange.start.Time
    /\ ret.dec.timeRange.end = acct.timeRange.end

\* C17: Equal is true exactly when the names are identical and the time
\* ranges have the same start, the same close presence and the same close
\* instant; the currency codes take no part.
EqualIsNameAndRange ==
    ret.op = "Equal" =>
        (ret.ok <=> /\ acct.name = ret.dec.name
                    /\ acct.timeRange.start = ret.dec.timeRange.start
                    /\ acct.timeRange.end.Valid = ret.dec.timeRange.end.Valid
                    /\ acct.timeRange.end.Time = ret.dec.timeRange.end.Time)

\* two closed Accounts that differ in their currency code only have been
\* found Equal
EqualAcrossCurrenciesSeen ==
    /\ ret.op = "Equal" /\ ret.ok
    /\ acct.currencyCode # ret.dec.currencyCode
    /\ acct.timeRange.end.Valid

\* C18: an Account whose name is empty or whitespace only does not pass
\* validation: ValidateBalance returns the FieldError of the empty name and
\* UnmarshalJSON returns an error.
BlankNameFailsValidation ==
    /\ (ret.op = "ValidateBalance" /\ Blank(acct.name))
           => ret.err = FieldError(<<EmptyNameError>>)
    /\ (ret.op = "UnmarshalJSON" /\ Blank(acct.name))
           => ret.err # NilErr

\* C19: IsOpen returns true exactly when the time range has no close
\* instant, whatever the start instant and the instant of a close.
IsOpenIsNoClose ==
    ret.op = "IsOpen" => (ret.ok <=> ~acct.timeRange.end.Valid)

\* IsOpen has returned false on an Account closed at the zero time
IsOpenOnClosedAtZeroSeen ==
    /\ ret.op = "IsOpen" /\ ~ret.ok
    /\ acct.timeRange.end = NullTime(TRUE, ZeroTime)

ErrorOptionGiven == \E i \in 1..Len(bargs.options) : bargs.options[i] = BalanceErrorFn

\* C20: balance.New with no options or Amount options only returns no error
\* and a Balance of the given date and of the last amount given, 0 when none
\* is; with an option that returns an error it returns that error and no
\* Balance.
BalanceNewFailsOnlyOnOptionError ==
    made.called =>
        IF ErrorOptionGiven
        THEN ~made.ok /\ made.err = ErrorsNew(TestErrorMessage)
        ELSE /\ made.ok /\ made.err = NilErr
             /\ made.b.Date = bargs.date
             /\ made.b.Amount = IF bargs.options = <<>> THEN 0
                                ELSE bargs.options[Len(bargs.options)].a

\* balance.New has returned a Balance of the second of two different
\* amounts, a negative one
LastAmountWinsSeen ==
    /\ made.called /\ made.ok /\ Len(bargs.options) = 2
    /\ bargs.options[1].a > 0 /\ bargs.options[2].a < 0
    /\ made.b.Amount = bargs.options[2].a

\* C21: Balance.Equal is true exactly when the amounts are equal and the
\* dates are the same instant, and gives the same answer with its operands
\* swapped.
BalanceEqualIsAmountAndInstant ==
    QueryDone("Equal") =>
        /\ res.eq <=> (res.bal.Amount = res.ob.Amount /\ res.bal.Date = res.ob.Date)
        /\ res.eq = res.qe

\* Equal has answered false on two Balances of one amount and two instants
EqualOnDifferentInstantsSeen ==
    /\ QueryDone("Equal")
    /\ res.bal.Amount = res.ob.Amount /\ res.bal.Date # res.ob.Date
    /\ ~res.eq /\ ~res.qe

\* C22: FieldError.Equal is true exactly when the two lists have the same
\* length and the same string at every index, and gives the same answer with
\* its operands swapped; two empty FieldErrors are Equal.
FieldErrorEqualIsPointwise ==
    fres.called =>
        /\ fres.equalA <=>
               /\ Len(fes.errA) = Len(fes.errB)
               /\ \A i \in 1..Len(fes.errA) : fes.errA[i] = fes.errB[i]
        /\ fres.equalA = fres.equalB
        /\ (fes.errA = <<>> /\ fes.errB = <<>>) => fres.equalA

\* Equal has answered false on two FieldErrors that hold the same two
\* strings in different orders
SameStringsOtherOrderSeen ==
    /\ fres.called /\ Len(fes.errA) = 2 /\ Len(fes.errB) = 2
    /\ fes.errA[1] # fes.errA[2]
    /\ fes.errB[1] = fes.errA[2] /\ fes.errB[2] = fes.errA[1]
    /\ ~fres.equalA /\ ~fres.equalB

\* C23: validate returns the FieldError of the one entry EmptyNameError when
\* the name is empty and no error for every other name, whatever the time
\* range of the Account.
ValidateReportsEmptyNameOnly ==
    ret.op = "validate" =>
        ret.err = IF acct.name = <<>> THEN FieldError(<<EmptyNameError>>) ELSE NilErr

\* validate has accepted a named Account whose time range has an end and no
\* start
ValidatedWithEndOnlySeen ==
    /\ ret.op = "validate" /\ ret.err = NilErr
    /\ acct.name # <<>>
    /\ ~acct.timeRange.start.Valid /\ acct.timeRange.end.Valid

\* the options of the call of New that are not nil, by index
NonNil == {i \in 1..Len(args.os) : args.os[i] # NilOption}

\* the index of the option New invoked last, 0 when it invoked none
LastCalled == IF new.calls = <<>> THEN 0 ELSE new.calls[Len(new.calls)].i

\* no option New invoked returned an error
NoCallFailed == \A k \in 1..Len(new.calls) : new.calls[k].err = NilErr

\* the CloseTime options of the call of New, by index
Closers == {i \in 1..Len(args.os) : args.os[i].kind = "CloseTime"}

\* C24: New invokes its options in argument order and never a nil one, each
\* on the Account the previous one left; it invokes nothing after an option
\* that returned an error, and validates only after all of them succeeded.
NewAppliesOptionsInOrder ==
    (new.called /\ ~Blank(args.name)) =>
        /\ \A k \in 1..Len(new.calls) : new.calls[k].i \in NonNil
        /\ \A k \in 1..(Len(new.calls) - 1) :
               new.calls[k].i < new.calls[k + 1].i /\ new.calls[k].err = NilErr
        /\ \A i \in NonNil : i <= LastCalled => \E k \in 1..Len(new.calls) : new.calls[k].i = i
        /\ NoCallFailed => (\A i \in NonNil : i <= LastCalled)
        /\ new.validated <=> NoCallFailed
        /\ new.ok =>
               /\ Closers = {} => ~Closed(new.a).Valid
               /\ \A i \in Closers : (\A j \in Closers : j <= i) =>
                      Closed(new.a) = NullTime(TRUE, args.os[i].t)
        /\ (NoCallFailed /\ \E i \in NonNil : args.os[i] = BlankName) =>
               (~new.ok /\ new.err = FieldError(<<EmptyNameError>>))

\* New has returned an Account closed at the instant of the second of two
\* CloseTime options, the first one of a later instant
SecondCloseTimeStandsSeen ==
    /\ new.called /\ new.ok /\ Len(args.os) = 2 /\ Len(new.calls) = 2
    /\ args.os[1].kind = "CloseTime" /\ args.os[2].kind = "CloseTime"
    /\ args.os[2].t < args.os[1].t
    /\ Closed(new.a) = NullTime(TRUE, args.os[2].t)

\* name is s without its leading and its trailing whitespace
TrimOf(name, s) ==
    /\ name = <<>> \/ (name[1] # " " /\ name[Len(name)] # " ")
    /\ \E i \in 0..Len(s) :
           /\ i + Len(name) <= Len(s)
           /\ \A k \in 1..Len(s) :
                  IF k > i /\ k <= i + Len(name) THEN s[k] = name[k - i] ELSE s[k] = " "

\* C25: the Account New returns has the given name without its leading and
\* trailing whitespace, the given open instant as its start, the given
\* currency code, and no close instant when no CloseTime was passed.
NewBuildsFromArguments ==
    (new.called /\ new.ok) =>
        /\ TrimOf(new.a.name, args.name)
        /\ RangeStart(new.a.timeRange) = NullTime(TRUE, args.opened)
        /\ Opened(new.a) = args.opened
        /\ new.a.currencyCode = args.currencyCode
        /\ Closers = {} => IsOpen(new.a)

\* New without options has returned an open Account for a name given with
\* whitespace on both sides and an open instant after the zero time
PaddedNameTrimmedSeen ==
    /\ new.called /\ new.ok /\ args.os = <<>>
    /\ Len(args.name) = 3 /\ args.name[1] = " " /\ args.name[3] = " "
    /\ Len(new.a.name) = 1
    /\ args.opened > ZeroTime /\ Opened(new.a) = args.opened
    /\ IsOpen(new.a)

ClosedUnder(i, j) ==
    /\ log[i].op = "ValidateBalance" /\ log[i].err = NilErr
    /\ log[j].op = "CloseTime" /\ log[j].err = NilErr
    /\ log[j].t < log[i].b.Date

\* C27: CloseTime succeeds or fails by its instant and the start of the
\* Account alone, whatever Balances were accepted before; a Balance accepted
\* before a successful CloseTime at an instant earlier than its date is
\* rejected by the ValidateBalance that follows that CloseTime.
ValidityIsOnDemand ==
    /\ \A j \in 1..Len(log) :
           log[j].op = "CloseTime" =>
               (log[j].err = NilErr <=> log[j].t >= Opened(acct))
    /\ \A i \in 1..Len(log), j \in 1..Len(log) :
           (i < j /\ j < Len(log) /\ ClosedUnder(i, j)
                  /\ log[j + 1].op = "ValidateBalance" /\ log[j + 1].b = log[i].b)
               => log[j + 1].err.kind = "DateOutOfAccountTimeRange"

\* a Balance was accepted by the open Account, then CloseTime succeeded at an
\* instant before the date of the Balance, then the Balance was rejected
AcceptedThenClosedThenRejectedSeen ==
    /\ Len(log) = 3 /\ ClosedUnder(1, 2)
    /\ log[3].op = "ValidateBalance" /\ log[3].b = log[1].b
    /\ log[3].err = DateOutOfAccountTimeRange(log[1].b.Date, acct.timeRange)
    /\ Closed(acct) = NullTime(TRUE, log[2].t)

\* C28: a Balance that Earliest, Latest or AtTime returns without an error
\* is an element of the collection queried.
QueriesReturnElements ==
    (res.op \in {"Earliest", "Latest", "AtTime"} /\ res.err = NilErr)
        => \E i \in 1..Len(bs) : bs[i] = res.bal

\* Earliest has answered on a collection whose Balances are all of the last
\* date there is and of amounts other than 0
EarliestOnLastDateSeen ==
    /\ QueryDone("Earliest") /\ Len(bs) = 2
    /\ \A i \in 1..Len(bs) : bs[i].Date = MaxDate /\ bs[i].Amount # 0
    /\ res.err = NilErr /\ res.bal = bs[1]

\* C29: on a non-empty collection, AtTime at an instant at or after every
\* date of the collection returns without error the Balance Latest returns,
\* and the date Earliest returns is not after the date Latest returns.
AtTimeMeetsLatest ==
    Len(bs) > 0 =>
        /\ (QueryDone("AtTime") /\ \A i \in 1..Len(bs) : bs[i].Date <= res.t)
               => (res.err = NilErr /\ res.bal = Latest(bs).bal)
        /\ QueryDone("Earliest") => res.bal.Date <= Latest(bs).bal.Date
        /\ QueryDone("Latest") => Earliest(bs).bal.Date <= res.bal.Date

\* AtTime has answered at the maximal date of a collection that holds two
\* Balances of that date and of different amounts, the first of them first
AtTimeAtMaximalDateSeen ==
    /\ QueryDone("AtTime") /\ Len(bs) = 3
    /\ bs[1].Date = res.t /\ bs[3].Date = res.t /\ bs[2].Date < res.t
    /\ bs[1].Amount # bs[3].Amount
    /\ res.bal = bs[3] /\ res.bal = Latest(bs).bal

\* C30: Sum, Earliest, Latest and AtTime leave the collection as it is, and
\* ValidateBalance, validate, IsOpen and Equal leave the Account and the
\* Account it is compared with as they are, whether or not they return an
\* error.
ReadsChangeNothing ==
    [][/\ bs' = bs
       /\ acct' = acct
       /\ ret'.op = "Equal" => ret'.dec = ret.dec]_vars

\* on one collection, not in date order, and one Account, a Balances query
\* and ValidateBalance have both returned an error
FailedReadsSeen ==
    /\ Len(bs) = 2 /\ bs[1].Date > bs[2].Date
    /\ QueryDone("AtTime") /\ res.err = ErrorsNew(ErrNoBalances)
    /\ ret.op = "ValidateBalance" /\ ret.err.kind = "DateOutOfAccountTimeRange"
    /\ acct \in OpenedAccounts

====
